---- MODULE Spec2Model ----
(***************************************************************************)
(* A model of the cmg-api math tutor pipeline: the text normalizer, the    *)
(* OCR candidate-line selector, the operation detector, the derivative     *)
(* rule explainer and the two dispatchers (parse_and_solve, solve_task)    *)
(* together with the tutor's solve_equation handler.                       *)
(*                                                                         *)
(* Text is a sequence of characters; a character is a one-letter string,   *)
(* and a non-ASCII glyph is the string of its code point ("U+00D7").       *)
(* The string functions of the code (strip, replace, split, in,           *)
(* startswith, lower) and its regular expressions are computed character   *)
(* by character, as Python computes them.                                  *)
(***************************************************************************)
EXTENDS Integers, Sequences, FiniteSets, TLC

VARIABLES
    pc,         \* position of the request in the component under study
    s,          \* normalize_text: the argument
    once,       \* normalize_text(s)
    twice,      \* normalize_text(normalize_text(s))
    text,       \* detect_operation: the argument
    op,         \* detect_operation(text)
    raw_text,   \* extract_math_from_text: the argument
    lines,      \* its stripped lines (step 3)
    candidates, \* the lines that look like math (step 4)
    chosen,     \* the line selected in step 5, None when there is none
    returned,   \* the text extract_math_from_text returns
    query,      \* the dispatchers: the query text
    task,       \* the requested task
    req_vars,   \* SolveRequest.vars: a list of names, <<>> for None
    oracle,     \* what the symbolic engine does during this request
    response,   \* the record returned to the caller
    calls,      \* the engine calls made, in order
    raised,     \* the exceptions raised, in order
    escaped,    \* an exception propagated to the caller
    d_expr,     \* explain_derivative: its argument expr
    d_var,      \* its argument var
    d_steps,    \* the steps explain_derivative returns
    e_eq,       \* explain_linear, explain_quadratic: the argument eq
    e_steps     \* the steps the explainer returns

normalizeVars == <<s, once, twice>>
detectVars == <<text, op>>
ocrVars == <<raw_text, lines, candidates, chosen, returned>>

requestVars == <<query, task, req_vars>>
dispatchVars == <<requestVars, oracle, response, calls, raised, escaped>>

derivativeVars == <<d_expr, d_var, d_steps>>

explainVars == <<e_eq, e_steps>>

vars == <<pc, normalizeVars, detectVars, ocrVars, dispatchVars, derivativeVars,
          explainVars>>

\* What a variable holds before its component has run: a tag, a text, a list.
NoValue == "NoValue"
NoText == <<"NoText">>
NoLines == <<>>
\* Python's None where the code expects a text
None == <<"None">>

\* The variables of a component that is not under study keep these values.
NormalizeIdle == s = NoText /\ once = NoText /\ twice = NoText
DetectIdle == text = NoText /\ op = NoValue
OcrIdle ==
    /\ raw_text = NoText
    /\ lines = NoLines
    /\ candidates = NoLines
    /\ chosen = NoText
    /\ returned = NoText
DispatchIdle ==
    /\ query = NoText
    /\ task = NoValue
    /\ req_vars = NoLines
    /\ oracle = NoValue
    /\ response = NoValue
    /\ calls = <<>>
    /\ raised = <<>>
    /\ escaped = FALSE
DerivativeIdle == d_expr = NoValue /\ d_var = NoValue /\ d_steps = <<>>
ExplainIdle == e_eq = NoValue /\ e_steps = <<>>

(***************************************************************************)
(* Characters.                                                             *)
(***************************************************************************)
LowerLetters == <<"a","b","c","d","e","f","g","h","i","j","k","l","m",
                  "n","o","p","q","r","s","t","u","v","w","x","y","z">>
UpperLetters == <<"A","B","C","D","E","F","G","H","I","J","K","L","M",
                  "N","O","P","Q","R","S","T","U","V","W","X","Y","Z">>
Digits == {"0","1","2","3","4","5","6","7","8","9"}

Range(f) == {f[i] : i \in DOMAIN f}

IsLower(c) == c \in Range(LowerLetters)
IsUpper(c) == c \in Range(UpperLetters)
\* [A-Za-z]
IsLetter(c) == IsLower(c) \/ IsUpper(c)
\* \d
IsDigit(c) == c \in Digits
\* \w
IsWord(c) == IsLetter(c) \/ IsDigit(c) \/ c = "_"
\* \s, and what str.strip() removes
IsSpace(c) == c \in {" ", "\t", "\n"}

IndexOf(seq, c) == CHOOSE i \in DOMAIN seq : seq[i] = c

\* str.lower() on one character
LowerChar(c) == IF IsUpper(c) THEN LowerLetters[IndexOf(UpperLetters, c)] ELSE c

\* str.lower()
lower(t) == [i \in DOMAIN t |-> LowerChar(t[i])]

(***************************************************************************)
(* Python's string operations.                                             *)
(***************************************************************************)
Drop(t, n) == SubSeq(t, n + 1, Len(t))
Take(t, n) == SubSeq(t, 1, n)

\* t.startswith(p)
startswith(t, p) == Len(p) <= Len(t) /\ Take(t, Len(p)) = p

\* p occurs in t at position i (1-based)
OccursAt(t, p, i) == i + Len(p) - 1 <= Len(t) /\ SubSeq(t, i, i + Len(p) - 1) = p

\* p in t
contains(t, p) == \E i \in 1..(Len(t) + 1) : OccursAt(t, p, i)

RECURSIVE lstrip(_)
lstrip(t) == IF t # <<>> /\ IsSpace(Head(t)) THEN lstrip(Tail(t)) ELSE t

RECURSIVE rstrip(_)
rstrip(t) ==
    IF t # <<>> /\ IsSpace(t[Len(t)]) THEN rstrip(Take(t, Len(t) - 1)) ELSE t

\* str.strip()
strip(t) == rstrip(lstrip(t))

\* str.replace(old, new): the non-overlapping occurrences, left to right
RECURSIVE replace(_, _, _)
replace(t, old, new) ==
    IF Len(t) < Len(old) THEN t
    ELSE IF startswith(t, old)
         THEN new \o replace(Drop(t, Len(old)), old, new)
         ELSE <<Head(t)>> \o replace(Tail(t), old, new)

\* The position of the first occurrence of p in t, 0 when there is none
find(t, p) ==
    IF contains(t, p)
    THEN CHOOSE i \in 1..(Len(t) + 1) :
            OccursAt(t, p, i) /\ \A j \in 1..(i - 1) : ~OccursAt(t, p, j)
    ELSE 0

\* t.split(p, 1) when p occurs in t: the text before and after the first p
split1(t, p) == <<Take(t, find(t, p) - 1), Drop(t, find(t, p) + Len(p) - 1)>>

(***************************************************************************)
(* parsing.py: normalize_text                                              *)
(***************************************************************************)
UNICODE_MAP ==
    << <<"U+00D7", <<"*">> >>,                  \* multiplication cross
       <<"U+00B7", <<"*">> >>,                  \* middle dot
       <<"U+2219", <<"*">> >>,                  \* bullet operator
       <<"U+00F7", <<"/">> >>,                  \* division sign
       <<"U+2212", <<"-">> >>,                  \* minus sign
       <<"U+2014", <<"-">> >>,                  \* em dash
       <<"U+221A", <<"s","q","r","t">> >>,      \* root sign
       <<"U+03C0", <<"p","i">> >> >>            \* pi

\* for k, v in map.items(): s = s.replace(k, v)
RECURSIVE ReplaceGlyphs(_, _)
ReplaceGlyphs(t, map) ==
    IF map = <<>> THEN t
    ELSE ReplaceGlyphs(replace(t, <<Head(map)[1]>>, Head(map)[2]), Tail(map))

\* re.sub(r"(?<=\d)(?=[A-Za-z(])", "*", s)
RECURSIVE InsertTimes(_)
InsertTimes(t) ==
    IF Len(t) < 2 THEN t
    ELSE IF IsDigit(t[1]) /\ (IsLetter(t[2]) \/ t[2] = "(")
         THEN <<t[1], "*">> \o InsertTimes(Tail(t))
         ELSE <<t[1]>> \o InsertTimes(Tail(t))

\* s.replace("==", "=")
CollapseEquals(t) == replace(t, <<"=", "=">>, <<"=">>)

normalize_text(t) ==
    CollapseEquals(InsertTimes(ReplaceGlyphs(strip(t), UNICODE_MAP)))

(***************************************************************************)
(* Regular-expression helpers.                                             *)
(***************************************************************************)
\* \b at the position after the first p characters of t
WordBoundary(t, p) ==
    LET before == p >= 1 /\ IsWord(t[p])
        after  == p < Len(t) /\ IsWord(t[p + 1])
    IN  before # after

\* re.search(r'\b(a1|a2|...)\b', t) for literal alternatives
SearchWord(t, alternatives) ==
    \E i \in 1..(Len(t) + 1) : \E a \in alternatives :
        /\ OccursAt(t, a, i)
        /\ WordBoundary(t, i - 1)
        /\ WordBoundary(t, i - 1 + Len(a))

\* t.startswith((p1, p2, ...))
StartsWithAny(t, prefixes) == \E p \in prefixes : startswith(t, p)

(***************************************************************************)
(* sympy_ollama_tutor.py: detect_operation                                 *)
(***************************************************************************)
\* ('diff', 'd/d', 'integrate', 'int')
EquationExcludedPrefixes ==
    { <<"d","i","f","f">>, <<"d","/","d">>,
      <<"i","n","t","e","g","r","a","t","e">>, <<"i","n","t">> }

\* the alternatives of r'\b(d/d|deriv|differentiat|prime|\'\')\b'
DerivativeWords ==
    { <<"d","/","d">>, <<"d","e","r","i","v">>,
      <<"d","i","f","f","e","r","e","n","t","i","a","t">>,
      <<"p","r","i","m","e">>, <<"'","'">> }

IsEquationText(txt) ==
    /\ contains(txt, <<"=">>)
    /\ ~StartsWithAny(strip(txt), EquationExcludedPrefixes)

IsDerivativeText(t) ==
    SearchWord(t, DerivativeWords) \/ startswith(t, <<"d","/","d">>)

IsIntegralText(t) ==
    \/ contains(t, <<"i","n","t","e","g","r","a","t","e">>)
    \/ contains(t, <<"U+222B">>)
    \/ SearchWord(t, { <<"i","n","t">> })

IsLimitText(t) ==
    contains(t, <<"l","i","m","i","t">>) \/ contains(t, <<"l","i","m">>)

IsSimplifyText(t) ==
    \/ contains(t, <<"s","i","m","p","l","i","f","y">>)
    \/ contains(t, <<"s","i","m","p","l","i","f","y","(">>)

IsFactorText(t) == contains(t, <<"f","a","c","t","o","r">>)

\* A plausible slip: the keyword cues are tried before the equality test.
detect_operation_cues_first(txt) ==
    LET t == lower(strip(txt))
    IN  IF IsDerivativeText(t) THEN "differentiate"
        ELSE IF IsIntegralText(t) THEN "integrate"
        ELSE IF IsLimitText(t) THEN "limit"
        ELSE IF IsSimplifyText(t) THEN "simplify"
        ELSE IF IsFactorText(t) THEN "factor"
        ELSE IF IsEquationText(txt) THEN "solve_equation"
        ELSE "simplify"

detect_operation(txt) ==
    LET t == lower(strip(txt))
    IN  IF IsEquationText(txt) THEN "solve_equation"
        ELSE IF IsDerivativeText(t) THEN "differentiate"
        ELSE IF IsIntegralText(t) THEN "integrate"
        ELSE IF IsLimitText(t) THEN "limit"
        ELSE IF IsSimplifyText(t) THEN "simplify"
        ELSE IF IsFactorText(t) THEN "factor"
        ELSE "simplify"

(***************************************************************************)
(* ocr.py: extract_math_from_text                                          *)
(***************************************************************************)
\* norm_map, in the order of its items
norm_map ==
    << <<"U+2212", <<"-">> >>, <<"U+2014", <<"-">> >>,
       <<"U+00D7", <<"*">> >>, <<"U+00B7", <<"*">> >>, <<"U+2219", <<"*">> >>,
       <<"U+00F7", <<"/">> >>,
       <<"U+221A", <<"s","q","r","t">> >>, <<"U+03C0", <<"p","i">> >> >>

\* The length of the run of whitespace that starts at position i of t
RECURSIVE SpaceRun(_, _)
SpaceRun(t, i) ==
    IF i <= Len(t) /\ IsSpace(t[i]) THEN 1 + SpaceRun(t, i + 1) ELSE 0

\* The length of the match of
\*   (?i)\b(?:solve(?:\s+for)?|calculate|find|evaluate|what is)\b
\* at position i of t, 0 when it does not match there
MatchInstruction(t, i) ==
    LET lt == lower(t)
        ends(n) == WordBoundary(t, i - 1 + n)
        word(w) == OccursAt(lt, w, i) /\ ends(Len(w))
        solve == OccursAt(lt, <<"s","o","l","v","e">>, i)
        ws == SpaceRun(t, i + 5)
        solveFor ==
            /\ solve
            /\ ws >= 1
            /\ OccursAt(lt, <<"f","o","r">>, i + 5 + ws)
            /\ ends(5 + ws + 3)
    IN  IF ~WordBoundary(t, i - 1) THEN 0
        ELSE IF solveFor THEN 5 + ws + 3
        ELSE IF solve /\ ends(5) THEN 5
        ELSE IF word(<<"c","a","l","c","u","l","a","t","e">>) THEN 9
        ELSE IF word(<<"f","i","n","d">>) THEN 4
        ELSE IF word(<<"e","v","a","l","u","a","t","e">>) THEN 8
        ELSE IF word(<<"w","h","a","t"," ","i","s">>) THEN 7
        ELSE 0

\* re.sub(<the instruction words>, ' ', s), from position i on
RECURSIVE SubInstructions(_, _)
SubInstructions(t, i) ==
    IF i > Len(t) THEN <<>>
    ELSE LET n == MatchInstruction(t, i)
         IN  IF n > 0 THEN <<" ">> \o SubInstructions(t, i + n)
             ELSE <<t[i]>> \o SubInstructions(t, i + 1)

\* str.splitlines()
RECURSIVE splitlines(_)
splitlines(t) ==
    IF t = <<>> THEN <<>>
    ELSE IF ~contains(t, <<"\n">>) THEN <<t>>
    ELSE <<split1(t, <<"\n">>)[1]>> \o splitlines(split1(t, <<"\n">>)[2])

HasDigit(t) == \E i \in DOMAIN t : IsDigit(t[i])
HasLetter(t) == \E i \in DOMAIN t : IsLetter(t[i])
HasAlnum(t) == \E i \in DOMAIN t : IsLetter(t[i]) \/ IsDigit(t[i])
\* [\+\-\*/\^()]
IsOperator(c) == c \in {"+", "-", "*", "/", "^", "(", ")"}

\* re.fullmatch(r'[A-Za-z]\s*=', ln)
IsPlaceholder(ln) ==
    /\ Len(ln) >= 2
    /\ IsLetter(ln[1])
    /\ ln[Len(ln)] = "="
    /\ \A i \in 2..(Len(ln) - 1) : IsSpace(ln[i])

\* step 4: does the line look like math
LooksLikeMath(ln) ==
    \/ HasDigit(ln)
    \/ (contains(ln, <<"=">>) /\ HasAlnum(replace(ln, <<"=">>, <<>>)))
    \/ \E i, j \in DOMAIN ln : i < j /\ IsLetter(ln[i]) /\ IsOperator(ln[j])
    \/ \E i, j \in DOMAIN ln : i < j /\ IsOperator(ln[i]) /\ IsLetter(ln[j])

\* step 4: the candidate lines, in order
RECURSIVE Candidates(_)
Candidates(lns) ==
    IF lns = <<>> THEN <<>>
    ELSE LET ln == Head(lns)
         IN  IF ln = <<>> \/ IsPlaceholder(ln) THEN Candidates(Tail(lns))
             ELSE IF LooksLikeMath(ln) THEN <<ln>> \o Candidates(Tail(lns))
             ELSE Candidates(Tail(lns))

\* The first element of a sequence of lines that satisfies P, None without one
FirstLine(lns, P(_)) ==
    IF \E i \in DOMAIN lns : P(lns[i])
    THEN lns[CHOOSE i \in DOMAIN lns :
                P(lns[i]) /\ \A j \in 1..(i - 1) : ~P(lns[j])]
    ELSE None

HasEqualsAndDigit(ln) == contains(ln, <<"=">>) /\ HasDigit(ln)
\* re.search(r'[\d\+\-\*/\^()=]', ln)
HasDigitOrOperator(ln) ==
    \E i \in DOMAIN ln : IsDigit(ln[i]) \/ IsOperator(ln[i]) \/ ln[i] = "="

\* A plausible slip: the line with '=' and a digit is not preferred.
ChooseLine_no_preference(cands) == FirstLine(cands, HasDigitOrOperator)

\* step 5: prefer a candidate with '=' and a digit, otherwise the first one
\* with a digit or an operator
ChooseLine(cands) ==
    IF FirstLine(cands, HasEqualsAndDigit) # None
    THEN FirstLine(cands, HasEqualsAndDigit)
    ELSE FirstLine(cands, HasDigitOrOperator)

\* re.sub(r'[^0-9A-Za-z=+\-*/^()., ]', '', s)
KeepMathChars(t) ==
    SelectSeq(t, LAMBDA c : \/ IsDigit(c) \/ IsLetter(c)
                            \/ c \in {"=", "+", "-", "*", "/", "^",
                                      "(", ")", ".", ",", " "})

\* re.sub(r'\b([A-Za-z])\s*=$', '', t)
DropTrailingPlaceholder(t) ==
    IF t # <<>> /\ t[Len(t)] = "="
    THEN LET k == Len(rstrip(Take(t, Len(t) - 1)))    \* the letter's position
         IN  IF k >= 1 /\ IsLetter(t[k]) /\ WordBoundary(t, k - 1)
             THEN Take(t, k - 1)
             ELSE t
    ELSE t

\* re.sub(r'(?<=\d)\s*\(', '*(', t), from position i on
RECURSIVE TimesBeforeParen(_, _)
TimesBeforeParen(t, i) ==
    IF i > Len(t) THEN <<>>
    ELSE LET ws == SpaceRun(t, i)
         IN  IF /\ i > 1
                /\ IsDigit(t[i - 1])
                /\ i + ws <= Len(t)
                /\ t[i + ws] = "("
             THEN <<"*", "(">> \o TimesBeforeParen(t, i + ws + 1)
             ELSE <<t[i]>> \o TimesBeforeParen(t, i + 1)

\* re.sub(r'(?<=[A-Za-z0-9\)])\s*(?=[A-Za-z0-9\(])', '', t), from position i on
RECURSIVE CollapseInnerSpaces(_, _)
CollapseInnerSpaces(t, i) ==
    IF i > Len(t) THEN <<>>
    ELSE LET ws == SpaceRun(t, i)
             left(c) == IsLetter(c) \/ IsDigit(c) \/ c = ")"
             right(c) == IsLetter(c) \/ IsDigit(c) \/ c = "("
         IN  IF /\ ws >= 1
                /\ i > 1
                /\ left(t[i - 1])
                /\ i + ws <= Len(t)
                /\ right(t[i + ws])
             THEN CollapseInnerSpaces(t, i + ws)
             ELSE <<t[i]>> \o CollapseInnerSpaces(t, i + 1)

\* re.sub(r'\s+', '', t)
RemoveSpaces(t) == SelectSeq(t, LAMBDA c : ~IsSpace(c))

\* steps 1 and 2: the glyphs replaced and the instruction words blanked
CleanText(raw) == SubInstructions(ReplaceGlyphs(raw, norm_map), 1)

\* step 3
StrippedLines(cleaned) ==
    LET lns == splitlines(cleaned) IN [i \in DOMAIN lns |-> strip(lns[i])]

\* step 6: without a chosen line, the math characters of the whole text
ChosenOrFallback(line, cleaned) ==
    IF line = None THEN strip(KeepMathChars(cleaned)) ELSE line

\* step 7
PostProcess(t) ==
    RemoveSpaces(
        CollapseInnerSpaces(
            TimesBeforeParen(strip(DropTrailingPlaceholder(strip(t))), 1), 1))

extract_math_from_text(raw) ==
    IF raw = <<>> THEN <<>>
    ELSE LET cleaned == CleanText(raw)
             line == ChooseLine(Candidates(StrippedLines(cleaned)))
         IN  PostProcess(ChosenOrFallback(line, cleaned))

(***************************************************************************)
(* Values, exceptions and the symbolic engine.                             *)
(*                                                                         *)
(* The engine (sympy) is outside the repository.  A parsed expression is   *)
(* kept as the text it was parsed from; an engine call is logged with its  *)
(* arguments; whether a call raises, which names of the text are free      *)
(* symbols of the parsed equation and the degree the engine computes are   *)
(* chosen by the oracle of the request.                                    *)
(***************************************************************************)
PyStr(chars) == [kind |-> "str", lhs |-> chars, rhs |-> NoText]
Expr(src) == [kind |-> "expr", lhs |-> src, rhs |-> NoText]
\* Eq(lhs, rhs)
Eq(l, r) == [kind |-> "eq", lhs |-> l, rhs |-> r]
ZeroText == <<"0">>

Call(fn, arg, var, domain) ==
    [fn |-> fn, arg |-> arg, var |-> var, domain |-> domain]
NoDomain == "default"

Exception(cls, msg, where) == [cls |-> cls, msg |-> msg, where |-> where]
NameError(name, where) == Exception("NameError", name, where)

\* The classes the modelled code raises are all subclasses of Exception.
IsSubclass(cls, handler) == handler = "Exception" \/ cls = handler

\* str(result) of the n-th engine call; None
ResultOf(n) == [none |-> FALSE, call |-> n]
ResultNone == [none |-> TRUE, call |-> 0]

\* the "detected" dictionary; {} has no kind
Detected(kind, var, degree) == [kind |-> kind, var |-> var, degree |-> degree]
DetectedEmpty == Detected("", NoText, <<>>)

Response(ok, detected, result, steps, warnings) ==
    [ok |-> ok, detected |-> detected, result |-> result, steps |-> steps,
     warnings |-> warnings]

\* What a dispatcher call comes to
Outcome(resp, cs, rs, esc) ==
    [response |-> resp, calls |-> cs, raised |-> rs, escaped |-> esc]

\* Parentheses are balanced in t (depth never negative, zero at the end)
RECURSIVE ParenDepthOK(_, _)
ParenDepthOK(t, depth) ==
    IF t = <<>> THEN depth = 0
    ELSE IF Head(t) = "(" THEN ParenDepthOK(Tail(t), depth + 1)
    ELSE IF Head(t) = ")" THEN depth > 0 /\ ParenDepthOK(Tail(t), depth - 1)
    ELSE ParenDepthOK(Tail(t), depth)

\* Texts no parser of the engine accepts: empty, unbalanced parentheses, a
\* remaining '=' or ',', an operator with a missing operand.
Malformed(t) ==
    LET u == strip(t)
    IN  \/ u = <<>>
        \/ ~ParenDepthOK(u, 0)
        \/ contains(u, <<"=">>)
        \/ contains(u, <<",">>)
        \/ u[1] \in {"*", "/", "^", ")"}
        \/ u[Len(u)] \in {"+", "-", "*", "/", "^", "("}
        \/ \E i \in 1..(Len(u) - 1) :
              /\ u[i] \in {"+", "-", "*", "/", "^", "("}
              /\ u[i + 1] \in {"*", "/", "^", ")"}

\* The length of the run of word characters that starts at position i of t
RECURSIVE WordRun(_, _)
WordRun(t, i) ==
    IF i <= Len(t) /\ IsWord(t[i]) THEN 1 + WordRun(t, i + 1) ELSE 0

\* The names that occur in a text: the candidates for eq.free_symbols
SymbolNames(t) ==
    { SubSeq(t, i, i + WordRun(t, i) - 1) :
        i \in { j \in DOMAIN t : IsLetter(t[j]) /\ (j = 1 \/ ~IsWord(t[j - 1])) } }

\* Code points order the characters the names are made of
CodePointOrder == <<"0","1","2","3","4","5","6","7","8","9">> \o UpperLetters
                    \o <<"_">> \o LowerLetters
Ord(c) == IndexOf(CodePointOrder, c)

\* a < b for names, as Python compares strings
RECURSIVE NameLess(_, _)
NameLess(a, b) ==
    IF b = <<>> THEN FALSE
    ELSE IF a = <<>> THEN TRUE
    ELSE IF Ord(Head(a)) # Ord(Head(b)) THEN Ord(Head(a)) < Ord(Head(b))
    ELSE NameLess(Tail(a), Tail(b))

\* sorted(list(free), key=lambda s: s.name)[0]
FirstByName(free) == CHOOSE v \in free : \A w \in free \ {v} : NameLess(v, w)

\* The oracle of a request.  failAt: the number of the engine call that
\* raises (counting the calls of the request other than the degree
\* computation), 0 when none does; polyFails, degree: the degree computation;
\* free: the free symbols of the parsed equation; first: the symbol that a
\* list built from the set of free symbols starts with (sets are unordered).
Oracle(n, pf, dg, fr, f) ==
    [failAt |-> n, polyFails |-> pf, degree |-> dg, free |-> fr, first |-> f]

\* a parser call on text t, as the n-th engine call, fails
ParseFails(o, t, n) == Malformed(t) \/ o.failAt = n
EngineFails(o, n) == o.failAt = n

(***************************************************************************)
(* parsing.py: parse_and_solve                                             *)
(***************************************************************************)
\* The names bound in the namespace of parsing.py: its imports (lines 2-12)
\* and its own definitions.  A reference to any other name raises NameError.
ParsingGlobals ==
    { "re", "Eq", "parse_expr", "standard_transformations", "convert_xor",
      "implicit_multiplication_application", "function_exponentiation",
      "sin", "cos", "tan", "asin", "acos", "atan", "sqrt", "log", "exp",
      "pi", "E", "I", "Abs", "sympify", "solve",
      "parse_and_solve", "ALLOWED_FUNCS", "TRANSFORMS", "UNICODE_MAP",
      "normalize_text", "parse_math" }

\* The statements of a try block ran to a return, or raised.
Done(resp, cs, rs) == [done |-> TRUE, response |-> resp, calls |-> cs, raised |-> rs,
                       exc |-> Exception("", "", "")]
Raise(exc, cs, rs) == [done |-> FALSE, response |-> NoValue, calls |-> cs,
                       raised |-> Append(rs, exc), exc |-> exc]

SympifyError(src) == Exception("SympifyError", "could not parse", "body")

\* lines 17-35: task == "differentiate"
DifferentiateBranch(q, o) ==
    LET hasComma == contains(q, <<",">>)
        exprText == IF hasComma THEN strip(split1(q, <<",">>)[1]) ELSE q
        varName == IF hasComma THEN strip(split1(q, <<",">>)[2]) ELSE <<"x">>
        cs == <<Call("sympify", PyStr(exprText), NoText, NoDomain)>>
    IN  IF "symbols" \notin ParsingGlobals
        THEN Raise(NameError("symbols", "body"), <<>>, <<>>)
        ELSE IF ParseFails(o, exprText, 1)
        THEN Raise(SympifyError(exprText), cs, <<>>)
        ELSE IF "explain_derivative" \notin ParsingGlobals
        THEN Raise(NameError("explain_derivative", "body"), cs, <<>>)
        ELSE IF "simplify" \notin ParsingGlobals
        THEN Raise(NameError("simplify", "body"), cs, <<>>)
        ELSE IF "diff" \notin ParsingGlobals
        THEN Raise(NameError("diff", "body"), cs, <<>>)
        ELSE IF EngineFails(o, 2)
        THEN Raise(Exception("EngineError", "diff", "body"),
                   Append(cs, Call("diff", Expr(exprText), varName, NoDomain)), <<>>)
        ELSE Done(Response(TRUE, Detected("derivative", varName, <<>>), ResultOf(2),
                           <<"explain_derivative(expr, var)">>, <<>>),
                  Append(cs, Call("diff", Expr(exprText), varName, NoDomain)), <<>>)

\* lines 53-65: the degree of lhs - rhs in var, None when Poly raises
ClassifyRaised(o) ==
    IF "Poly" \notin ParsingGlobals THEN <<NameError("Poly", "classification")>>
    ELSE IF o.polyFails
    THEN <<Exception("PolynomialError", "not a polynomial", "classification")>>
    ELSE <<>>

Degree(o) == IF ClassifyRaised(o) # <<>> THEN <<>> ELSE <<o.degree>>

\* the explainer a degree selects, and the name the code calls it by
ExplainerOf(deg) ==
    IF deg = <<1>> THEN "explain_linear"
    ELSE IF deg = <<2>> THEN "explain_quadratic"
    ELSE ""

GenericSteps == <<"Solve symbolically and simplify.">>

\* A plausible slip: no try around the degree computation.
SolveParsedEquation_no_inner_try(eq, cs, n, o) ==
    LET var == IF o.free = {} THEN <<"x">> ELSE FirstByName(o.free)
        rs == ClassifyRaised(o)
        polyCalls == IF "Poly" \in ParsingGlobals
                     THEN Append(cs, Call("Poly", eq, var, NoDomain)) ELSE cs
        explainer == ExplainerOf(<<o.degree>>)
        steps == IF explainer = "" THEN GenericSteps ELSE <<explainer>>
        solveCalls == Append(polyCalls, Call("solve", eq, var, NoDomain))
    IN  IF o.free = {} /\ "symbols" \notin ParsingGlobals
        THEN Raise(NameError("symbols", "body"), cs, <<>>)
        ELSE IF rs # <<>>
        THEN Raise(rs[1], polyCalls, <<>>)
        ELSE IF explainer # "" /\ explainer \notin ParsingGlobals
        THEN Raise(NameError(explainer, "body"), polyCalls, <<>>)
        ELSE IF EngineFails(o, n)
        THEN Raise(Exception("EngineError", "solve", "body"), solveCalls, <<>>)
        ELSE Done(Response(TRUE, Detected("equation", var, <<o.degree>>),
                           ResultOf(Len(solveCalls)), steps, <<>>),
                  solveCalls, <<>>)

\* lines 49-74: the variable, the classification, the steps and the solution
SolveParsedEquation(eq, cs, n, o) ==
    LET var == IF o.free = {} THEN <<"x">> ELSE FirstByName(o.free)
        rs == ClassifyRaised(o)
        deg == Degree(o)
        polyCalls == IF "Poly" \in ParsingGlobals
                     THEN Append(cs, Call("Poly", eq, var, NoDomain)) ELSE cs
        explainer == ExplainerOf(deg)
        steps == IF explainer = "" THEN GenericSteps ELSE <<explainer>>
        solveCalls == Append(polyCalls, Call("solve", eq, var, NoDomain))
    IN  IF o.free = {} /\ "symbols" \notin ParsingGlobals
        THEN Raise(NameError("symbols", "body"), cs, <<>>)
        ELSE IF explainer # "" /\ explainer \notin ParsingGlobals
        THEN Raise(NameError(explainer, "body"), polyCalls, rs)
        ELSE IF EngineFails(o, n)
        THEN Raise(Exception("EngineError", "solve", "body"), solveCalls, rs)
        ELSE Done(Response(TRUE, Detected("equation", var, deg),
                           ResultOf(Len(solveCalls)), steps, <<>>),
                  solveCalls, rs)

\* lines 38-74: "=" in query or task == "solve"
EquationBranch(q, o) ==
    LET lhs == strip(split1(q, <<"=">>)[1])
        rhs == strip(split1(q, <<"=">>)[2])
        lhsCall == <<Call("sympify", PyStr(lhs), NoText, NoDomain)>>
        rhsCall == Append(lhsCall, Call("sympify", PyStr(rhs), NoText, NoDomain))
        exprCall == <<Call("sympify", PyStr(q), NoText, NoDomain)>>
    IN  IF contains(q, <<"=">>)
        THEN IF ParseFails(o, lhs, 1) THEN Raise(SympifyError(lhs), lhsCall, <<>>)
             ELSE IF ParseFails(o, rhs, 2) THEN Raise(SympifyError(rhs), rhsCall, <<>>)
             ELSE SolveParsedEquation(Eq(lhs, rhs), rhsCall, 3, o)
        ELSE IF ParseFails(o, q, 1) THEN Raise(SympifyError(q), exprCall, <<>>)
             ELSE SolveParsedEquation(Eq(q, ZeroText), exprCall, 2, o)

\* lines 76-85: otherwise simplify the expression
ExpressionBranch(q, o) ==
    LET cs == <<Call("sympify", PyStr(q), NoText, NoDomain)>>
        simplifyCalls == Append(cs, Call("simplify", Expr(q), NoText, NoDomain))
    IN  IF ParseFails(o, q, 1) THEN Raise(SympifyError(q), cs, <<>>)
        ELSE IF "simplify" \notin ParsingGlobals
        THEN Raise(NameError("simplify", "body"), cs, <<>>)
        ELSE IF EngineFails(o, 2)
        THEN Raise(Exception("EngineError", "simplify", "body"), simplifyCalls, <<>>)
        ELSE Done(Response(TRUE, Detected("expression", NoText, <<>>), ResultOf(2),
                           <<"Simplify the expression.">>, <<>>),
                  simplifyCalls, <<>>)

\* lines 16-85: the body of the try
ParseAndSolveBody(q, tsk, o) ==
    IF tsk = "differentiate" THEN DifferentiateBranch(q, o)
    ELSE IF contains(q, <<"=">>) \/ tsk = "solve" THEN EquationBranch(q, o)
    ELSE ExpressionBranch(q, o)

\* A plausible slip: the handler names the parser's error class only.
HandledClass_parse_errors_only == "SympifyError"

\* `except Exception as e` (parsing.py line 87, solver.py line 56)
HandledClass == "Exception"

\* lines 87-94: the failure record
FailureResponse(exc) ==
    Response(FALSE, DetectedEmpty, ResultNone, <<>>, <<exc.msg>>)

parse_and_solve(q, tsk, o) ==
    LET body == ParseAndSolveBody(q, tsk, o)
    IN  IF body.done
        THEN Outcome(body.response, body.calls, body.raised, FALSE)
        ELSE IF IsSubclass(body.exc.cls, HandledClass)
        THEN Outcome(FailureResponse(body.exc), body.calls, body.raised, FALSE)
        ELSE Outcome(NoValue, body.calls, body.raised, TRUE)

(***************************************************************************)
(* parsing.py: parse_math, and solver.py: solve_task                       *)
(***************************************************************************)
EquationWord == <<"e","q","u","a","t","i","o","n">>
ExpressionWord == <<"e","x","p","r","e","s","s","i","o","n">>

\* parse_math returns the pair (kind, obj): kind is the string 'equation' or
\* 'expression', obj the parsed equation or expression.
parse_math(txt, o) ==
    LET t == normalize_text(txt)
        lhs == split1(t, <<"=">>)[1]
        rhs == split1(t, <<"=">>)[2]
        lhsCall == <<Call("parse_expr", PyStr(lhs), NoText, NoDomain)>>
        rhsCall == Append(lhsCall, Call("parse_expr", PyStr(rhs), NoText, NoDomain))
        exprCall == <<Call("parse_expr", PyStr(t), NoText, NoDomain)>>
        Returned(pair, cs) == [done |-> TRUE, pair |-> pair, calls |-> cs]
        Raised(cs) == [done |-> FALSE, pair |-> <<>>, calls |-> cs]
    IN  IF contains(t, <<"=">>)
        THEN IF ParseFails(o, lhs, 1) THEN Raised(lhsCall)
             ELSE IF ParseFails(o, rhs, 2) THEN Raised(rhsCall)
             ELSE Returned(<<PyStr(EquationWord), Eq(lhs, rhs)>>, rhsCall)
        ELSE IF ParseFails(o, t, 1) THEN Raised(exprCall)
             ELSE Returned(<<PyStr(ExpressionWord), Expr(t)>>, exprCall)

\* v == "..." for a Python value v and a string literal
PyEquals(v, chars) == v.kind = "str" /\ v.lhs = chars

SolveResponse(ok, tsk, detected, result, steps, warnings) ==
    [ok |-> ok, task |-> tsk, detected |-> detected, result |-> result,
     steps |-> steps, warnings |-> warnings]

\* The engine call each task of solve_task makes on expr, "" for an unknown task
EngineFunctionOf(tsk) ==
    IF tsk \in {"simplify", "integrate", "factor", "expand"} THEN tsk
    ELSE IF tsk = "differentiate" THEN "diff"
    ELSE ""

\* solver.py lines 10-47: the body of the try, after parse_math has returned
\* the pair `pair` with the engine calls cs; n numbers the next engine call.
SolveTaskBody(pair, cs, n, tsk, vs, o) ==
    LET expr == pair[1]         \* `expr, kind = parse_math(req.query)`
        kind == pair[2]
        v == IF vs = <<>> THEN <<"x">> ELSE vs[1]       \* vars[0]
        Finish(fn, arg, var, domain) ==
            LET all == Append(cs, Call(fn, arg, var, domain))
            IN  IF EngineFails(o, n)
                THEN Raise(Exception("EngineError", fn, "body"), all, <<>>)
                ELSE Done(SolveResponse(TRUE, tsk, [kind |-> kind, query |-> expr],
                                        ResultOf(Len(all)), <<>>, <<>>), all, <<>>)
        \* Eq(expr, 0) is built first, then handed to solveset
        SolveAsZero ==
            LET withEq == Append(cs, Call("Eq", expr, NoText, NoDomain))
                all == Append(withEq, Call("solveset", Eq(expr.lhs, ZeroText), v,
                                           "Complexes"))
            IN  IF EngineFails(o, n)
                THEN Raise(Exception("EngineError", "Eq", "body"), withEq, <<>>)
                ELSE IF EngineFails(o, n + 1)
                THEN Raise(Exception("EngineError", "solveset", "body"), all, <<>>)
                ELSE Done(SolveResponse(TRUE, tsk, [kind |-> kind, query |-> expr],
                                        ResultOf(Len(all)), <<>>, <<>>), all, <<>>)
    IN  IF tsk = "auto"
        THEN IF PyEquals(kind, EquationWord)
             THEN Finish("solveset", expr, v, "Complexes")
             ELSE Finish("simplify", expr, NoText, NoDomain)
        ELSE IF tsk = "solve"
        THEN IF PyEquals(kind, EquationWord)
             THEN Finish("solveset", expr, v, "Complexes")
             ELSE SolveAsZero
        ELSE IF tsk = "differentiate" \/ tsk = "integrate"
        THEN Finish(EngineFunctionOf(tsk), expr, v, NoDomain)
        ELSE IF EngineFunctionOf(tsk) # ""
        THEN Finish(EngineFunctionOf(tsk), expr, NoText, NoDomain)
        ELSE Done(SolveResponse(FALSE, tsk, [kind |-> kind, query |-> NoValue],
                                ResultNone, <<>>, <<"Unknown task">>), cs, <<>>)

solve_task(q, tsk, vs, o) ==
    LET parsed == parse_math(q, o)
        body == IF parsed.done
                THEN SolveTaskBody(parsed.pair, parsed.calls, Len(parsed.calls) + 1,
                                   tsk, vs, o)
                ELSE Raise(SympifyError(q), parsed.calls, <<>>)
    IN  IF body.done
        THEN Outcome(body.response, body.calls, body.raised, FALSE)
        ELSE IF IsSubclass(body.exc.cls, HandledClass)
        THEN Outcome(SolveResponse(FALSE, tsk, DetectedEmpty, ResultNone, <<>>,
                                   <<body.exc.msg>>),
                     body.calls, body.raised, FALSE)
        ELSE Outcome(NoValue, body.calls, body.raised, TRUE)

(***************************************************************************)
(* sympy_ollama_tutor.py: solve_equation, reached from analyze_and_solve   *)
(***************************************************************************)
\* The dictionary the handler returns; analyze_and_solve returns
\* {'error': ...} when the handler raises.
TutorResult(ok, variable, result, error) ==
    [ok |-> ok, operation |-> "solve_equation", variable |-> variable,
     result |-> result, warnings |-> error]

\* lines 56-81.  _safe_sympify turns a parse error into None.
SolveEquationBody(problem, o) ==
    LET left == split1(problem, <<"=">>)[1]
        right == split1(problem, <<"=">>)[2]
        cs == << Call("sympify", PyStr(left), NoText, NoDomain),
                 Call("sympify", PyStr(right), NoText, NoDomain) >>
        LIsNone == ParseFails(o, left, 1)
        RIsNone == ParseFails(o, right, 2)
        parseErrors ==
            (IF LIsNone THEN <<Exception("SympifyError", "left", "_safe_sympify")>>
             ELSE <<>>)
            \o (IF RIsNone THEN <<Exception("SympifyError", "right", "_safe_sympify")>>
                ELSE <<>>)
        eq == Eq(left, right)
        var == o.first          \* symbols[0] of list(eq.free_symbols)
        checkCalls == Append(cs, Call("simplify", eq, NoText, NoDomain))
        solveCalls == Append(cs, Call("solve", eq, var, NoDomain))
    IN  IF LIsNone \/ RIsNone
        THEN Raise(Exception("ValueError", "Couldn't parse equation parts with SymPy.",
                             "body"), cs, parseErrors)
        ELSE IF o.free = {}
        THEN IF EngineFails(o, 3)
             THEN Raise(Exception("EngineError", "simplify", "body"), checkCalls, <<>>)
             ELSE Done(TutorResult(TRUE, NoText, ResultOf(3), <<>>), checkCalls, <<>>)
        ELSE IF EngineFails(o, 3)
        THEN Raise(Exception("EngineError", "solve", "body"), solveCalls, <<>>)
        ELSE Done(TutorResult(TRUE, var, ResultOf(3), <<>>), solveCalls, <<>>)

\* analyze_and_solve (lines 184-201) on a problem detected as solve_equation
analyze_and_solve(problem, o) ==
    LET body == SolveEquationBody(problem, o)
    IN  IF body.done
        THEN Outcome(body.response, body.calls, body.raised, FALSE)
        ELSE IF IsSubclass(body.exc.cls, "Exception")
        THEN Outcome(TutorResult(FALSE, NoText, ResultNone, <<body.exc.msg>>),
                     body.calls, body.raised, FALSE)
        ELSE Outcome(NoValue, body.calls, body.raised, TRUE)

(***************************************************************************)
(* explain.py: explain_derivative                                          *)
(*                                                                         *)
(* An expression is the engine's tree: a head (the class of the node: Add, *)
(* Mul, Pow, a function, Symbol, Integer) and the tuple of its arguments.  *)
(***************************************************************************)
Symbol(name) == [head |-> "Symbol", name |-> name, args |-> <<>>]
Integer(name) == [head |-> "Integer", name |-> name, args |-> <<>>]
Apply(head, arguments) == [head |-> head, name |-> "", args |-> arguments]

\* expr.has(v): v occurs in the tree
RECURSIVE has(_, _)
has(e, v) == e = v \/ \E i \in DOMAIN e.args : has(e.args[i], v)

LinearityStep ==
    "Linearity: d/dx(f + g) = f' + g'. Differentiate each term and add."
ProductStep ==
    "Product rule: d/dx(f·g) = f'·g + f·g'. Differentiate each factor."
ChainStep == "Chain rule: d/dx f(g(x)) = f'(g(x)) · g'(x)."
BasicStep == "Differentiate using basic rules and simplify."

explain_derivative(e, v) ==
    IF e.head = "Add" THEN <<LinearityStep>>
    ELSE IF e.head = "Mul" THEN <<ProductStep>>
    ELSE IF Len(e.args) = 1 /\ has(e.args[1], v) THEN <<ChainStep>>
    ELSE <<BasicStep>>

(***************************************************************************)
(* explain.py: explain_linear                                              *)
(*                                                                         *)
(* A side of a linear equation is coef*var + const with integer coef and   *)
(* const; that form is the one simplify brings a linear expression to.  A  *)
(* number is an exact fraction <<numerator, denominator>> in lowest terms  *)
(* with a positive denominator, as the engine's rationals are.  A step is  *)
(* the sentence of the code with the values it formats into it; _s, the    *)
(* engine's printing of a value, is not modelled.                          *)
(***************************************************************************)
Linear(coef, const) == [coef |-> coef, const |-> const]
TheVar == Linear(1, 0)

abs(n) == IF n < 0 THEN -n ELSE n

RECURSIVE gcd(_, _)
gcd(m, n) == IF n = 0 THEN abs(m) ELSE gcd(n, m % abs(n))

\* n / m of two integers, m nonzero
Quotient(n, m) ==
    LET g == gcd(n, m)
        sign == IF m < 0 THEN -1 ELSE 1
    IN  <<sign * (n \div g), sign * (m \div g)>>

Minus(e1, e2) == Linear(e1.coef - e2.coef, e1.const - e2.const)

\* e.as_independent(var, as_Add=True)[0]: the terms without var
as_independent(e) == Linear(0, e.const)
\* lines 11-12
var_part(e) == Minus(e, as_independent(e))
const_part(e) == as_independent(e)

\* line 14
VarTermsLeft(lhs, rhs) == Minus(var_part(lhs), var_part(rhs))
\* A slip of sign: the constants are collected on the left.
ConstantsRight_sign_slip(lhs, rhs) == Minus(const_part(lhs), const_part(rhs))
\* line 15
ConstantsRight(lhs, rhs) == Minus(const_part(rhs), const_part(lhs))

\* A.as_coefficient(var): the factor of var in a multiple of var, else None
as_coefficient(A) == IF A.const = 0 /\ A.coef # 0 THEN <<A.coef>> ELSE <<>>

MoveStep(from, to) ==
    [rule |-> "Move variable terms left and constants right:", by |-> <<>>,
     from |-> from, to |-> to]
DivideStep(coeff, from, to) ==
    [rule |-> "Divide both sides by", by |-> <<coeff>>, from |-> from, to |-> to]
IsolatedStep(to) ==
    [rule |-> "Variable already isolated:", by |-> <<>>, from |-> to, to |-> to]

\* lines 6-29, for an equation a*var + b = c*var + d of degree 1 (a # c)
explain_linear(eq) ==
    LET lhs == eq.lhs
        rhs == eq.rhs
        A == VarTermsLeft(lhs, rhs)
        B == ConstantsRight(lhs, rhs)
        \* lines 19-22: simplify(A/var) of A = k*var + 0 is k as well
        coeff == IF as_coefficient(A) = <<>> THEN A.coef ELSE as_coefficient(A)[1]
    IN  IF coeff - 1 # 0
        THEN << MoveStep(Eq(lhs, rhs), Eq(A, B)),
                DivideStep(coeff, Eq(A, B), Eq(TheVar, Quotient(B.const, coeff))) >>
        ELSE << MoveStep(Eq(lhs, rhs), Eq(A, B)),
                IsolatedStep(Eq(TheVar, Quotient(B.const, 1))) >>

(***************************************************************************)
(* explain.py: explain_quadratic                                           *)
(*                                                                         *)
(* A polynomial of degree at most two in var is the tuple <<a, b, c>> of   *)
(* its integer coefficients, highest power first, as Poly.all_coeffs()     *)
(* lists them.  The engine's factor() works over the rationals: it takes   *)
(* out the integer content (with the sign of the leading coefficient) and  *)
(* splits the primitive part into linear factors when its discriminant is  *)
(* a perfect square.                                                       *)
(***************************************************************************)
PolyMinus(p, q) == <<p[1] - q[1], p[2] - q[2], p[3] - q[3]>>

\* Poly(expr, var).all_coeffs()
all_coeffs(p) == p

\* A sign slip: b^2 + 4ac
Discriminant_sign_slip(a, b, c) == b * b + 4 * a * c
\* line 39: b**2 - 4*a*c
Discriminant(a, b, c) == b * b - 4 * a * c

IsSquare(n) == n >= 0 /\ \E r \in 0..n : r * r = n
sqrt(n) == CHOOSE r \in 0..n : r * r = n

\* A product content * factors[1] * ... ; an unfactored expression is the
\* product of itself alone
Product(content, factors) == [content |-> content, factors |-> factors]
Unfactored(p) == Product(1, <<p>>)

\* The primitive linear factor m*var - n of the root n/m
LinearFactor(root) == <<0, root[2], -root[1]>>

\* factor(expr) for expr of degree 2
factor(p) ==
    LET g == gcd(gcd(p[1], p[2]), p[3]) * (IF p[1] < 0 THEN -1 ELSE 1)
        a == p[1] \div g
        b == p[2] \div g
        c == p[3] \div g
        D == Discriminant(a, b, c)
    IN  IF IsSquare(D)
        THEN Product(g, << LinearFactor(Quotient(-b + sqrt(D), 2 * a)),
                           LinearFactor(Quotient(-b - sqrt(D), 2 * a)) >>)
        ELSE Product(g, << <<a, b, c>> >>)

\* line 43: _s(fact) != _s(expr), the comparison of two printed forms.  When
\* factor() returns its argument the two are the same text; a product of
\* two linear factors prints differently from the expanded polynomial; when
\* only a content is taken out, whether simplify (inside _s) multiplies it
\* back in is the engine's choice.
PrintedFormChanges(p) ==
    IF factor(p) = Unfactored(p) THEN {FALSE}
    ELSE IF Len(factor(p).factors) = 2 THEN {TRUE}
    ELSE BOOLEAN

StandardFormStep(eq, expr, a, b, c) ==
    [rule |-> "Standard form:", from |-> eq, to |-> Unfactored(expr),
     values |-> <<a, b, c>>]
DiscriminantStep(D) ==
    [rule |-> "Discriminant:", from |-> NoValue, to |-> NoValue, values |-> <<D>>]
FactorStep(expr, fact) ==
    [rule |-> "Factor the quadratic:", from |-> expr, to |-> fact, values |-> <<>>]
ZeroProductStep ==
    [rule |-> "Apply zero-product property: set each factor to 0 and solve.",
     from |-> NoValue, to |-> NoValue, values |-> <<>>]
QuadraticFormulaStep ==
    [rule |-> "Use the quadratic formula:", from |-> NoValue, to |-> NoValue,
     values |-> <<>>]

\* lines 31-49; o.changed: the printed form of factor(expr) differs
explain_quadratic(eq, o) ==
    LET expr == PolyMinus(eq.lhs, eq.rhs)
        coeffs == all_coeffs(expr)
        a == coeffs[1]
        b == coeffs[2]
        c == coeffs[3]
        D == Discriminant(a, b, c)
        fact == factor(expr)
        steps == << StandardFormStep(eq, expr, a, b, c), DiscriminantStep(D) >>
    IN  IF o.changed
        THEN steps \o << FactorStep(expr, fact), ZeroProductStep >>
        ELSE steps \o << QuadraticFormulaStep >>

(***************************************************************************)
(* Bounded inputs.                                                         *)
(***************************************************************************)
RECURSIVE SeqsUpTo(_, _)
SeqsUpTo(S, n) ==
    IF n = 0 THEN {<<>>}
    ELSE LET shorter == SeqsUpTo(S, n - 1)
         IN  shorter \cup {Append(t, c) : t \in shorter, c \in S}

\* The concatenation of a sequence of texts
RECURSIVE Concat(_)
Concat(ts) == IF ts = <<>> THEN <<>> ELSE Head(ts) \o Concat(Tail(ts))

MaxNormLen == 3
NormAlphabet == {"=", "5", "x", "(", " ", "U+00D7", "U+221A"}
NormTexts == SeqsUpTo(NormAlphabet, MaxNormLen)

\* The words the detected texts are made of
DetectWords ==
    { <<"s","i","m","p","l","i","f","y"," ">>,
      <<"f","a","c","t","o","r"," ">>,
      <<"l","i","m","i","t"," ">>,
      <<"i","n","t","e","g","r","a","t","e"," ">>,
      <<"I","n","t","e","g","r","a","t","e"," ">>,
      <<"i","n","t"," ">>,
      <<"U+222B">>,
      <<"d","e","r","i","v","a","t","i","v","e"," ","o","f"," ">>,
      <<"d","i","f","f","e","r","e","n","t","i","a","t","e"," ">>,
      <<"d","e","r","i","v"," ">>,
      <<"d","/","d","x"," ">>,
      <<"d","i","f","f"," ">>,
      <<" ","p","r","i","m","e">>,
      <<"f","'","'">>,
      <<"x","^","2">>,
      <<"x","=","5">> }
MaxDetectWords == 2
DetectTexts == {Concat(ws) : ws \in SeqsUpTo(DetectWords, MaxDetectWords)}

\* The lines the OCR transcripts are made of
OcrLines ==
    { <<"S","o","l","v","e"," ","f","o","r"," ","y">>,
      <<"2","y"," ","="," ","1","0">>,
      <<"y","=">>,
      <<"f","i","n","d">>,
      <<"x","+","1">>,
      <<"3","+","x","=">>,
      <<"2"," ","(","x",")","=","4">>,
      <<"x"," ","y">>,
      <<"!","!">>,
      <<>> }
MaxOcrLines == 3

\* "\n".join(lns)
RECURSIVE JoinLines(_)
JoinLines(lns) ==
    IF lns = <<>> THEN <<>>
    ELSE IF Len(lns) = 1 THEN Head(lns)
    ELSE Head(lns) \o <<"\n">> \o JoinLines(Tail(lns))

OcrTexts == {JoinLines(lns) : lns \in SeqsUpTo(OcrLines, MaxOcrLines)}

\* The pieces the queries are made of, the tasks and the variable lists
QueryWords == { <<"x","+","y">>, <<"2","*","b">>, <<"=">>, <<"(">> }
MaxQueryWords == 3
Queries == {Concat(ws) : ws \in SeqsUpTo(QueryWords, MaxQueryWords)}
Tasks == {"auto", "solve", "simplify", "differentiate", "factor", "plot"}
VarLists == { <<>>, << <<"y">> >> }

\* Expression trees of depth at most two over the first NumAtoms atoms
AtomPool == <<Symbol("x"), Integer("2"), Symbol("y"), Integer("3")>>
NumAtoms == 3
Atoms == {AtomPool[i] : i \in 1..NumAtoms}
Grow(S) ==
    Atoms \cup {Apply(f, <<a>>) : f \in {"sin", "exp"}, a \in S}
          \cup {Apply(h, <<a, b>>) : h \in {"Add", "Mul", "Pow"}, a \in S, b \in S}
Expressions == Grow(Grow(Atoms))
Variables == {a \in Atoms : a.head = "Symbol"}

\* Linear equations a*var + b = c*var + d of degree 1 with small coefficients
MaxCoef == 2
Coefs == -MaxCoef..MaxCoef
LinearSides == {Linear(a, b) : a \in Coefs, b \in Coefs}
LinearEquations ==
    {Eq(sides[1], sides[2]) :
        sides \in {p \in LinearSides \X LinearSides : p[1].coef # p[2].coef}}

\* Quadratic equations lhs = rhs with small coefficients: lhs - rhs has
\* degree 2
MaxQuadCoef == 6
QuadCoefs == -MaxQuadCoef..MaxQuadCoef
QuadraticLeftSides == QuadCoefs \X QuadCoefs \X QuadCoefs
\* 0, var, var^2 + 1
QuadraticRightSides == { <<0, 0, 0>>, <<0, 1, 0>>, <<1, 0, 1>> }
QuadraticEquations ==
    {Eq(sides[1], sides[2]) :
        sides \in {p \in QuadraticLeftSides \X QuadraticRightSides :
                      p[1][1] # p[2][1]}}

\* Of the (at most k) numbered engine calls of a request one raises, or none
FailureOracles(k) == 0..k
\* The degree computation raises, or gives a degree
DegreeOracles == {<<TRUE, 1>>, <<FALSE, 1>>, <<FALSE, 2>>, <<FALSE, 3>>}
\* The names that can be free symbols of the equation parsed from q: the
\* engine evaluates an equation with identical sides to True, which has none.
FreeSymbolCandidates(q) ==
    IF /\ contains(q, <<"=">>)
       /\ strip(split1(q, <<"=">>)[1]) = strip(split1(q, <<"=">>)[2])
    THEN {}
    ELSE SymbolNames(q)

\* The free symbols of the parsed equation, with the first of them in the
\* order of their names
SortedFreeOracles(q) ==
    { <<fr, IF fr = {} THEN NoText ELSE FirstByName(fr)>> :
        fr \in SUBSET FreeSymbolCandidates(q) }
\* The free symbols of the parsed equation, with any of them as the first
\* element of list(eq.free_symbols)
ListedFreeOracles(q) ==
    {<<{}, NoText>>} \cup
    UNION { {<<fr, f>> : f \in fr} : fr \in SUBSET FreeSymbolCandidates(q) }

(***************************************************************************)
(* Normalizing a text, then normalizing the result.                        *)
(***************************************************************************)
InitNormalize ==
    /\ pc = "input"
    /\ s \in NormTexts
    /\ once = NoText
    /\ twice = NoText
    /\ DetectIdle
    /\ OcrIdle
    /\ DispatchIdle
    /\ DerivativeIdle
    /\ ExplainIdle

Normalize ==
    /\ pc = "input"
    /\ once' = normalize_text(s)
    /\ pc' = "normalized"
    /\ UNCHANGED <<s, twice, detectVars, ocrVars, dispatchVars, derivativeVars, explainVars>>

NormalizeAgain ==
    /\ pc = "normalized"
    /\ twice' = normalize_text(once)
    /\ pc' = "renormalized"
    /\ UNCHANGED <<s, once, detectVars, ocrVars, dispatchVars, derivativeVars, explainVars>>

NextNormalize == Normalize \/ NormalizeAgain

SpecNormalize == InitNormalize /\ [][NextNormalize]_vars

\* C2: normalize_text is idempotent: normalizing an already normalized text
\* gives back the same text, for every input text.
C2_NormalizeIdempotent == pc = "renormalized" => twice = once

(***************************************************************************)
(* Detecting the operation of a text.                                      *)
(***************************************************************************)
InitDetect ==
    /\ pc = "input"
    /\ text \in DetectTexts
    /\ op = NoValue
    /\ NormalizeIdle
    /\ OcrIdle
    /\ DispatchIdle
    /\ DerivativeIdle
    /\ ExplainIdle

Detect ==
    /\ pc = "input"
    /\ op' = detect_operation(text)
    /\ pc' = "detected"
    /\ UNCHANGED <<text, normalizeVars, ocrVars, dispatchVars, derivativeVars, explainVars>>

NextDetect == Detect

SpecDetect == InitDetect /\ [][NextDetect]_vars

\* The text starts with one of the derivative/integral keywords.
StartsWithKeyword(txt) ==
    \E k \in { <<"d","i","f","f">>, <<"d","/","d">>, <<"i","n","t">>,
               <<"i","n","t","e","g","r","a","t","e">> } :
        startswith(strip(txt), k)

\* A cue word other than the equality sign occurs in the text.
HasCueWord(txt) ==
    \E w \in { <<"s","i","m","p","l","i","f","y">>, <<"f","a","c","t","o","r">>,
               <<"l","i","m","i","t">>, <<"i","n","t","e","g","r","a","t","e">>,
               <<"d","e","r","i","v">> } :
        contains(lower(txt), w)

\* C3: equality beats keyword cues: a text that contains '=' and does not
\* start with a derivative/integral keyword is tagged solve_equation,
\* whatever other cue words it contains.
C3_EqualityBeatsCues ==
    (pc = "detected" /\ contains(text, <<"=">>) /\ ~StartsWithKeyword(text))
        => op = "solve_equation"

\* A text with '=' and a cue word (such as "simplify x=5") has been tagged.
C3_Witness ==
    /\ pc = "detected"
    /\ contains(text, <<"=">>)
    /\ ~StartsWithKeyword(text)
    /\ HasCueWord(text)
    /\ op = "solve_equation"

\* The text carries a derivative cue: 'd/d', 'deriv', 'differentiat' anywhere,
\* or a trailing prime marker.
HasDerivativeCue(txt) ==
    LET t == lower(strip(txt))
    IN  \/ contains(t, <<"d","/","d">>)
        \/ contains(t, <<"d","e","r","i","v">>)
        \/ contains(t, <<"d","i","f","f","e","r","e","n","t","i","a","t">>)
        \/ (t # <<>> /\ t[Len(t)] = "'")

\* C4: a text without '=' that contains a derivative cue anywhere is tagged
\* differentiate.
C4_DerivativeCueDetected ==
    (pc = "detected" /\ ~contains(text, <<"=">>) /\ HasDerivativeCue(text))
        => op = "differentiate"

OperationTags ==
    {"solve_equation", "differentiate", "integrate", "limit", "simplify", "factor"}

\* Neither '=' nor any derivative, integral or limit cue occurs in the text.
NoEarlierCue(txt) ==
    LET t == lower(strip(txt))
    IN  /\ ~contains(txt, <<"=">>)
        /\ ~HasDerivativeCue(txt)
        /\ ~contains(t, <<"p","r","i","m","e">>)
        /\ ~contains(t, <<"i","n","t">>)
        /\ ~contains(t, <<"U+222B">>)
        /\ ~contains(t, <<"l","i","m">>)

\* C14: detection is a total first-match rule list in the order equality,
\* derivative cue, integrate, limit, factor, simplify, default simplify:
\* every text gets exactly one of the six tags, and a text with no '=' and
\* no derivative, integral or limit cue that contains both 'factor' and
\* 'simplify' is tagged factor.
C14_FactorBeforeSimplify ==
    pc = "detected" =>
        /\ op \in OperationTags
        /\ ( /\ NoEarlierCue(text)
             /\ contains(lower(text), <<"f","a","c","t","o","r">>)
             /\ contains(lower(text), <<"s","i","m","p","l","i","f","y">>) )
              => op = "factor"

(***************************************************************************)
(* Extracting the math statement of an OCR transcript.                     *)
(***************************************************************************)
InitOcr ==
    /\ pc = "input"
    /\ raw_text \in OcrTexts
    /\ lines = NoLines
    /\ candidates = NoLines
    /\ chosen = NoText
    /\ returned = NoText
    /\ NormalizeIdle
    /\ DetectIdle
    /\ DispatchIdle
    /\ DerivativeIdle
    /\ ExplainIdle

\* `if not raw_text: return ""`
ExtractEmpty ==
    /\ pc = "input"
    /\ raw_text = <<>>
    /\ returned' = extract_math_from_text(raw_text)
    /\ pc' = "extracted"
    /\ UNCHANGED <<raw_text, lines, candidates, chosen, normalizeVars, detectVars,
                   dispatchVars, derivativeVars, explainVars>>

ExtractMath ==
    /\ pc = "input"
    /\ raw_text # <<>>
    /\ lines' = StrippedLines(CleanText(raw_text))
    /\ candidates' = Candidates(lines')
    /\ chosen' = ChooseLine(candidates')
    /\ returned' = extract_math_from_text(raw_text)
    /\ pc' = "extracted"
    /\ UNCHANGED <<raw_text, normalizeVars, detectVars, dispatchVars,
                   derivativeVars, explainVars>>

NextOcr == ExtractEmpty \/ ExtractMath

SpecOcr == InitOcr /\ [][NextOcr]_vars

\* A line that is neither blank nor a placeholder and has '=' and a digit
IsEquationLine(ln) ==
    ln # <<>> /\ ~IsPlaceholder(ln) /\ contains(ln, <<"=">>) /\ HasDigit(ln)

C6_OutputNotEmpty ==
    (pc = "extracted" /\ HasAlnum(raw_text)) => returned # <<>>

(***************************************************************************)
(* One request to a dispatcher: parse_and_solve, solve_task, or the        *)
(* tutor's analyze_and_solve on an equation.                               *)
(***************************************************************************)
InitDispatch ==
    /\ pc = "input"
    /\ query \in Queries
    /\ task \in Tasks
    /\ req_vars = NoLines
    /\ oracle = NoValue
    /\ response = NoValue
    /\ calls = <<>>
    /\ raised = <<>>
    /\ escaped = FALSE
    /\ NormalizeIdle
    /\ DetectIdle
    /\ OcrIdle
    /\ DerivativeIdle
    /\ ExplainIdle

Return(outcome) ==
    /\ response' = outcome.response
    /\ calls' = outcome.calls
    /\ raised' = outcome.raised
    /\ escaped' = outcome.escaped

ParseAndSolve ==
    /\ pc = "input"
    /\ \E n \in FailureOracles(3), dg \in DegreeOracles,
          fr \in SortedFreeOracles(query) :
          /\ oracle' = Oracle(n, dg[1], dg[2], fr[1], fr[2])
          /\ Return(parse_and_solve(query, task, oracle'))
    /\ pc' = "parse_and_solve"
    /\ UNCHANGED <<requestVars, normalizeVars, detectVars, ocrVars, derivativeVars, explainVars>>

SolveTask ==
    /\ pc = "input"
    /\ \E n \in FailureOracles(4), vs \in VarLists :
          /\ oracle' = Oracle(n, FALSE, 1, {}, NoText)
          /\ req_vars' = vs
          /\ Return(solve_task(query, task, vs, oracle'))
    /\ pc' = "solve_task"
    /\ UNCHANGED <<query, task, normalizeVars, detectVars, ocrVars, derivativeVars, explainVars>>

\* The tutor has no task argument: the detector routes the problem.
AnalyzeAndSolve ==
    /\ pc = "input"
    /\ task = "auto"
    /\ detect_operation(query) = "solve_equation"
    /\ \E n \in FailureOracles(3), fr \in ListedFreeOracles(query) :
          /\ oracle' = Oracle(n, FALSE, 1, fr[1], fr[2])
          /\ Return(analyze_and_solve(query, oracle'))
    /\ pc' = "analyze_and_solve"
    /\ UNCHANGED <<requestVars, normalizeVars, detectVars, ocrVars, derivativeVars, explainVars>>

NextDispatch == ParseAndSolve \/ SolveTask \/ AnalyzeAndSolve

SpecDispatch == InitDispatch /\ [][NextDispatch]_vars

Dispatched == pc \in {"parse_and_solve", "solve_task"}

\* The record reports a failure: ok=false, no result, a warning
ReportsFailure ==
    /\ response.ok = FALSE
    /\ response.result = ResultNone
    /\ response.warnings # <<>>

\* C1 as stated: the dispatcher never propagates an exception, and whenever
\* parsing or any engine call fails the record has ok=false, a None result
\* and a non-empty warnings sequence.
C1_AnyFailureIsReported ==
    Dispatched => (~escaped /\ (raised # <<>> => ReportsFailure))

\* C1 amended: the dispatcher never propagates an exception, and whenever an
\* exception other than one of the degree classification is raised, the
\* record has ok=false, a None result and the exception's text as its only
\* warning.
C1_UncaughtFailureIsReported ==
    Dispatched =>
        /\ ~escaped
        /\ \A i \in DOMAIN raised :
              raised[i].where = "body" =>
                  (ReportsFailure /\ response.warnings = <<raised[i].msg>>)

\* parse_and_solve has answered a query with an unmatched parenthesis.
C1_Witness ==
    /\ pc = "parse_and_solve"
    /\ contains(query, <<"=">>)
    /\ ~ParenDepthOK(query, 0)
    /\ ~escaped
    /\ raised # <<>>
    /\ ReportsFailure

\* The operation an engine call performs, "" for the parser's calls
OperationOf(fn) ==
    IF fn \in {"solve", "solveset"} THEN "solve_equation"
    ELSE IF fn = "diff" THEN "differentiate"
    ELSE IF fn \in {"simplify", "factor", "integrate", "expand", "limit"} THEN fn
    ELSE ""

OperationsPerformed ==
    {OperationOf(calls[i].fn) : i \in DOMAIN calls} \ {""}

\* The operation an explicit task names
OperationOfTask(tsk) == IF tsk = "solve" THEN "solve_equation" ELSE tsk

\* C7: with task auto the operation performed is the one the Operation
\* Detector assigns to the text; with an explicit task it is that task's
\* operation, whatever the text contains (also when it contains '=').
C7_TaskRouting ==
    (Dispatched /\ task # "plot") =>
        OperationsPerformed \subseteq
            { IF task = "auto" THEN detect_operation(query)
              ELSE OperationOfTask(task) }

ParsedAsEquation ==
    /\ contains(normalize_text(query), <<"=">>)
    /\ \A i \in DOMAIN raised : raised[i].cls # "SympifyError"

\* C8: for a query that parses as an equation, solve_task with task auto or
\* solve asks the engine for the solution set of that equation over the
\* complex domain and returns it with ok=true; it does not simplify the query.
C8_EquationSolvedOverComplexes ==
    (pc = "solve_task" /\ task \in {"auto", "solve"} /\ ParsedAsEquation) =>
        /\ \E i \in DOMAIN calls :
              /\ calls[i].fn = "solveset"
              /\ calls[i].arg.kind = "eq"
              /\ calls[i].arg.rhs = split1(normalize_text(query), <<"=">>)[2]
              /\ calls[i].domain = "Complexes"
              /\ oracle.failAt = 0 => (response.ok /\ response.result = ResultOf(i))
        /\ \A i \in DOMAIN calls : calls[i].fn # "simplify"

\* C9: when the equation has several free symbols, every equation-solving
\* path (parse_and_solve, the tutor's solve_equation) solves for the free
\* symbol that comes first by name.
C9_SolvesForFirstSymbolByName ==
    (pc \in {"parse_and_solve", "analyze_and_solve"}
        /\ Cardinality(oracle.free) >= 2) =>
        \A i \in DOMAIN calls :
            calls[i].fn = "solve" => calls[i].var = FirstByName(oracle.free)

\* parse_and_solve has parsed an equation with a free symbol whose
\* lhs - rhs is a polynomial in the chosen variable, and the engine's
\* solver does not fail.
PolynomialEquationParsed ==
    /\ pc = "parse_and_solve"
    /\ task # "differentiate"
    /\ contains(query, <<"=">>) \/ task = "solve"
    /\ \A i \in DOMAIN raised : raised[i].cls # "SympifyError"
    /\ oracle.failAt = 0
    /\ ~oracle.polyFails
    /\ oracle.free # {}

\* the steps the explainer of a degree gives
StepsOfDegree(dg) == IF ExplainerOf(<<dg>>) = "" THEN GenericSteps
                     ELSE <<ExplainerOf(<<dg>>)>>

\* C11: for an equation whose lhs - rhs is a polynomial of degree 1 in the
\* chosen variable the result reports degree 1 and carries the linear
\* explainer's steps, for degree 2 it reports degree 2 and carries the
\* quadratic explainer's steps, and for any other degree it carries the
\* single generic step.
C11_ShapeClassification ==
    PolynomialEquationParsed =>
        /\ response.ok
        /\ response.detected.degree = <<oracle.degree>>
        /\ response.steps = StepsOfDegree(oracle.degree)


\* The degree computation of parse_and_solve has raised.
ClassificationFailed ==
    /\ pc = "parse_and_solve"
    /\ \E i \in DOMAIN raised : raised[i].where = "classification"

\* The record of a softly degraded request: ok, a result, the generic step
SoftlyDegraded ==
    /\ response.ok
    /\ ~response.result.none
    /\ response.steps = GenericSteps
    /\ response.warnings = <<>>

InitDerivative ==
    /\ pc = "input"
    /\ d_expr \in Expressions
    /\ d_var \in Variables
    /\ d_steps = <<>>
    /\ NormalizeIdle
    /\ DetectIdle
    /\ OcrIdle
    /\ DispatchIdle
    /\ ExplainIdle

ExplainDerivative ==
    /\ pc = "input"
    /\ d_steps' = explain_derivative(d_expr, d_var)
    /\ pc' = "explained"
    /\ UNCHANGED <<d_expr, d_var, normalizeVars, detectVars, ocrVars, dispatchVars,
                   explainVars>>

NextDerivative == ExplainDerivative

SpecDerivative == InitDerivative /\ [][NextDerivative]_vars

IsSum == d_expr.head = "Add"
IsProduct == d_expr.head = "Mul"
\* a function applied to a single argument
IsUnaryApplication == Len(d_expr.args) = 1

\* C10: exactly one step, by first match: a sum gives the
\* linearity rule, otherwise a product the product rule, otherwise a
\* single-argument application whose argument is not the bare variable the
\* chain rule, and everything else (sin(x) included) the basic-rules step.
C10_RuleByShape_ArgumentNotVariable ==
    pc = "explained" =>
        d_steps = << IF IsSum THEN LinearityStep
                   ELSE IF IsProduct THEN ProductStep
                   ELSE IF IsUnaryApplication /\ d_expr.args[1] # d_var THEN ChainStep
                   ELSE BasicStep >>

(***************************************************************************)
(* Explaining a linear equation.                                           *)
(***************************************************************************)
InitLinear ==
    /\ pc = "input"
    /\ e_eq \in LinearEquations
    /\ e_steps = <<>>
    /\ NormalizeIdle
    /\ DetectIdle
    /\ OcrIdle
    /\ DispatchIdle
    /\ DerivativeIdle

ExplainLinear ==
    /\ pc = "input"
    /\ e_steps' = explain_linear(e_eq)
    /\ pc' = "explain_linear"
    /\ UNCHANGED <<e_eq, normalizeVars, detectVars, ocrVars, dispatchVars,
                   derivativeVars>>

NextLinear == ExplainLinear

SpecLinear == InitLinear /\ [][NextLinear]_vars

\* The coefficients of the equation a*var + b = c*var + d
CoefA == e_eq.lhs.coef
ConstB == e_eq.lhs.const
CoefC == e_eq.rhs.coef
ConstD == e_eq.rhs.const

\* The fraction v = <<n, m>> satisfies a*v + b = c*v + d
SolvesLinear(v) ==
    CoefA * v[1] + ConstB * v[2] = CoefC * v[1] + ConstD * v[2]

InitQuadratic ==
    /\ pc = "input"
    /\ e_eq \in QuadraticEquations
    /\ e_steps = <<>>
    /\ NormalizeIdle
    /\ DetectIdle
    /\ OcrIdle
    /\ DispatchIdle
    /\ DerivativeIdle

ExplainQuadratic ==
    /\ pc = "input"
    /\ \E ch \in PrintedFormChanges(PolyMinus(e_eq.lhs, e_eq.rhs)) :
          /\ oracle' = [changed |-> ch]
          /\ e_steps' = explain_quadratic(e_eq, oracle')
    /\ pc' = "explain_quadratic"
    /\ UNCHANGED <<e_eq, requestVars, response, calls, raised, escaped,
                   normalizeVars, detectVars, ocrVars, derivativeVars>>

NextQuadratic == ExplainQuadratic

SpecQuadratic == InitQuadratic /\ [][NextQuadratic]_vars

\* The coefficients of lhs - rhs, highest power first
QuadA == e_eq.lhs[1] - e_eq.rhs[1]
QuadB == e_eq.lhs[2] - e_eq.rhs[2]
QuadC == e_eq.lhs[3] - e_eq.rhs[3]

\* The product multiplied out
RECURSIVE Expand(_)
Expand(fs) ==
    IF Len(fs) = 1 THEN fs[1]
    ELSE LET f == fs[1]
             r == Expand(Tail(fs))
         IN  <<f[2] * r[2], f[2] * r[3] + f[3] * r[2], f[3] * r[3]>>
Expanded(prod) ==
    LET e == Expand(prod.factors)
    IN  <<prod.content * e[1], prod.content * e[2], prod.content * e[3]>>

\* C13: for a degree-2 equation explain_quadratic gives, in this order, the
\* standard form with the coefficients a, b, c, the discriminant b^2 - 4ac
\* of those coefficients, and then either the factoring step followed by the
\* zero-product step, when factoring changes the printed form, or the one
\* quadratic-formula step otherwise: four steps or three, never both
\* branches.  For x^2 - 5*x + 6 = 0 the discriminant is 1 and the factoring
\* branch is taken.
C13_QuadraticSteps ==
    pc = "explain_quadratic" =>
        /\ e_steps[1].rule = "Standard form:"
        /\ e_steps[1].values = <<QuadA, QuadB, QuadC>>
        /\ e_steps[2].rule = "Discriminant:"
        /\ e_steps[2].values = <<QuadB * QuadB - 4 * QuadA * QuadC>>
        /\ oracle.changed =>
              /\ Len(e_steps) = 4
              /\ e_steps[3].rule = "Factor the quadratic:"
              /\ Expanded(e_steps[3].to) = <<QuadA, QuadB, QuadC>>
              /\ e_steps[4].rule = ZeroProductStep.rule
        /\ ~oracle.changed =>
              /\ Len(e_steps) = 3
              /\ e_steps[3].rule = QuadraticFormulaStep.rule
        /\ \A i \in DOMAIN e_steps :
              /\ e_steps[i].rule = QuadraticFormulaStep.rule => ~oracle.changed
              /\ e_steps[i].rule = "Factor the quadratic:" => oracle.changed
        /\ e_eq = Eq(<<1, -5, 6>>, <<0, 0, 0>>) =>
              /\ e_steps[2].values = <<1>>
              /\ Len(e_steps) = 4
              /\ e_steps[3].to = Product(1, << <<0, 1, -3>>, <<0, 1, -2>> >>)

\* x^2 - 5*x + 6 = 0 has been explained with the factoring branch.
C13_Witness ==
    /\ pc = "explain_quadratic"
    /\ e_eq = Eq(<<1, -5, 6>>, <<0, 0, 0>>)
    /\ Len(e_steps) = 4
    /\ e_steps[3].rule = "Factor the quadratic:"


====
